---- MODULE Spec2Model ----
(***************************************************************************)
(* CrossFrameJS (src/src/index.ts): two CrossFrame instances, one in the   *)
(* parent window ("A") and one in the embedded frame ("B"), each bound to  *)
(* the other window as its postMessage target.                             *)
(*                                                                         *)
(* Strings that the code builds by concatenation with ":" (message types)  *)
(* are sequences of their ":"-separated segments, so that                  *)
(* `${type}:response` is Append(type, "response") and "handshake:response" *)
(* is <<"handshake", "response">>.  Payload values are sequences of atoms, *)
(* the empty sequence being JavaScript's undefined.  A requestId is <<>>   *)
(* when the field is absent and <<s>> when it is the string s.             *)
(***************************************************************************)
EXTENDS Naturals, Sequences, FiniteSets, TLC

\* Number of API calls and foreign postMessage calls in one behaviour.
MaxOps == 3

Endpoints == {"A", "B"}

Peer(e) == IF e = "A" THEN "B" ELSE "A"

\* The origin the browser reports for messages posted by e's window.
WindowOrigin(e) == IF e = "A" THEN "https://a.example" ELSE "https://b.example"

\* The origin of a third window that can also post to either window.
ForeignOrigin == "https://x.example"

Wildcard == "*"

Undefined == <<>>

NoRequestId == <<>>

HandshakeType == <<"handshake">>

HandshakeResponseType == <<"handshake", "response">>

ResponseType(type) == Append(type, "response")

\* Mutant: the channel leaves the type as it is.
ChannelType_NoPrefix(name, type) == type

\* `${this.name}:${type}` of CrossFrameChannel.
ChannelType(name, type) == <<name>> \o type

\* JavaScript truthiness of an optional string: undefined and "" are falsy.
Truthy(s) == s # <<>> /\ s # <<"">>

\* Values of Math.random().toString(36).slice(2): the fraction digits of a
\* random number in base 36; Math.random() = 0 prints "0" and leaves "".
RandomIds == {<<"">>, <<"r1">>, <<"r2">>}

Envelope(type, payload, requestId) ==
    [type |-> type, payload |-> payload, requestId |-> requestId]

Event(data, org) == [data |-> data, origin |-> org]

(***************************************************************************)
(* Handlers.  A handler value is a function identity: kind "user" is a     *)
(* synchronous application handler, kind "hs" the onHandshakeResponse      *)
(* closure created by the n-th handshake() call of the instance, kind      *)
(* "async" an application handler declared async: it returns a Promise of  *)
(* its result.                                                             *)
(***************************************************************************)
UserHandler(n) == [kind |-> "user", n |-> n]

AsyncHandler(n) == [kind |-> "async", n |-> n]

\* A Promise object as a value: what an async handler returns to its caller.
PromiseObject == <<"[object Promise]">>

HandshakeListener(n) == [kind |-> "hs", n |-> n]

NoHandler == [kind |-> "none", n |-> 0]

UserHandlers == {UserHandler(1), UserHandler(2)}

\* What application handler h returns for a payload.
HandlerResult(h, payload) ==
    IF h.n = 1 THEN <<"h1">> \o payload ELSE <<"h2">> \o payload

EmptyMap == [k \in {} |-> NoHandler]

MapSet(m, k, v) == [x \in DOMAIN m \cup {k} |-> IF x = k THEN v ELSE m[x]]

MapDelete(m, k) == [x \in DOMAIN m \ {k} |-> m[x]]

MapGet(m, k) == IF k \in DOMAIN m THEN m[k] ELSE NoHandler

EmptyPending == [k \in {} |-> 0]

(***************************************************************************)
(* Plugins.  A hook is "absent" (the plugin has no such method), "void"    *)
(* (the method returns nothing) or a transform that returns a new envelope *)
(* whose payload is tagged.                                                *)
(***************************************************************************)
Plugin(name, bs, ar) == [name |-> name, beforeSend |-> bs, afterReceive |-> ar]

Plugins ==
    { Plugin("P1", "tagA", "tagA"),
      Plugin("P2", "tagB", "tagB"),
      Plugin("P3", "void", "absent") }

\* The value of plugin.hook?.(msg): <<>> when nothing is returned.
CallHook(hook, msg) ==
    CASE hook = "tagA" -> <<[msg EXCEPT !.payload = <<"a">> \o @]>>
      [] hook = "tagB" -> <<[msg EXCEPT !.payload = <<"b">> \o @]>>
      [] OTHER -> <<>>

\* One step of the reduce callback: `result || msg`.
HookStage(hook, msg) ==
    LET result == CallHook(hook, msg)
    IN IF result # <<>> THEN result[1] ELSE msg

(***************************************************************************)
(* State.  cf[e] holds the fields of the CrossFrame instance of window e   *)
(* together with the promises it has returned (req, hs) and the state of   *)
(* its window (listeners, binds, ready, onload).  inbox[e] is the queue of *)
(* message events posted to window e and not yet dispatched.  running     *)
(* holds the promises async handlers have returned and that are not yet    *)
(* fulfilled.  The fields posted, calls, hooks, torn and seen are what the *)
(* step in progress has done;                                              *)
(* they are recorded in `last` and are empty in cf.  app is the embedding   *)
(* application: which API calls it makes and how it configured the two     *)
(* instances; ops counts its calls.                                        *)
(***************************************************************************)
VARIABLES cf, inbox, ops, app, last

vars == <<cf, inbox, ops, app, last>>

\* The plugin pipeline: Array.prototype.reduce from index i, with the hooks
\* it calls recorded in run.trace.
RECURSIVE Reduce(_, _, _, _)
Reduce(ps, dir, i, run) ==
    IF i > Len(ps) THEN run
    ELSE LET out == HookStage(ps[i][dir], run.msg)
             called == IF ps[i][dir] = "absent" THEN <<>>
                       ELSE <<[dir |-> dir, plugin |-> i, in |-> run.msg, out |-> out]>>
         IN Reduce(ps, dir, i + 1, [msg |-> out, trace |-> run.trace \o called])

Reverse(ps) == [i \in 1..Len(ps) |-> ps[Len(ps) + 1 - i]]

\* Mutant: the beforeSend hooks run in reverse registration order.
applyBeforeSend_Reversed(ps, data) ==
    Reduce(Reverse(ps), "beforeSend", 1, [msg |-> data, trace |-> <<>>])

applyBeforeSend(ps, data) == Reduce(ps, "beforeSend", 1, [msg |-> data, trace |-> <<>>])

applyAfterReceive(ps, data) == Reduce(ps, "afterReceive", 1, [msg |-> data, trace |-> <<>>])

\* this.target.postMessage(message, this.origin).  The message is copied by
\* the structured clone algorithm, which throws DataCloneError for a Promise:
\* nothing is posted and the exception ends the caller.
postMessage(s, message) ==
    IF message.payload = PromiseObject THEN s
    ELSE [s EXCEPT !.posted = Append(@, message)]

\* Mutant: a type that has a handler keeps it.
on_KeepFirst(s, type, handler) ==
    IF type \in DOMAIN s.handlers THEN s
    ELSE [s EXCEPT !.handlers = MapSet(@, type, handler)]

on(s, type, handler) == [s EXCEPT !.handlers = MapSet(@, type, handler)]

\* Mutant: off(type, handler) removes the registration whatever handler is.
off_Always(s, type, handler) == [s EXCEPT !.handlers = MapDelete(@, type)]

off(s, type, handler) ==
    IF handler # NoHandler
    THEN IF MapGet(s.handlers, type) = handler
         THEN [s EXCEPT !.handlers = MapDelete(@, type)]
         ELSE s
    ELSE [s EXCEPT !.handlers = MapDelete(@, type)]

\* Mutant: send() posts nothing before the handshake is completed.
send_Gated(s, type, payload) ==
    IF Truthy(s.handshakeToken) /\ ~s.handshakeCompleted THEN s
    ELSE LET run == applyBeforeSend(s.plugins, Envelope(type, payload, NoRequestId))
         IN postMessage([s EXCEPT !.hooks = @ \o run.trace], run.msg)

send(s, type, payload) ==
    LET run == applyBeforeSend(s.plugins, Envelope(type, payload, NoRequestId))
    IN postMessage([s EXCEPT !.hooks = @ \o run.trace], run.msg)

\* `this.handshakeToken && !this.handshakeCompleted`
HandshakeBlocks(s) == Truthy(s.handshakeToken) /\ ~s.handshakeCompleted

\* The promise a request() call returns.  served is history, read only by the
\* properties: the handler the peer had for the type when the call was made.
Promise(type, payload, requestId, state, value) ==
    [type |-> type, payload |-> payload, requestId |-> requestId,
     state |-> state, value |-> value, served |-> NoHandler]

HandshakeError == <<"Handshake not completed.">>

\* Mutant: request() without the handshake check.
request_NoGate(s, type, payload, requestId) ==
    LET t == postMessage(s, Envelope(type, payload, requestId))
    IN [t EXCEPT !.req = Append(@, Promise(type, payload, requestId,
                                            "pending", Undefined)),
                 !.pending = MapSet(@, requestId, Len(s.req) + 1)]

\* requestId is the value Math.random().toString(36).slice(2) takes in the call.
request(s, type, payload, requestId) ==
    IF HandshakeBlocks(s)
    THEN [s EXCEPT !.req = Append(@, Promise(type, payload, NoRequestId,
                                             "rejected", HandshakeError))]
    ELSE LET t == postMessage(s, Envelope(type, payload, requestId))
             k == Len(s.req) + 1
         IN [t EXCEPT !.req = Append(@, Promise(type, payload, requestId,
                                                 "pending", Undefined)),
                      !.pending = MapSet(@, requestId, k)]

\* resolve(value) of the k-th request promise; settling twice has no effect.
Resolve(s, k, value) ==
    IF s.req[k].state = "pending"
    THEN [s EXCEPT !.req[k].state = "fulfilled", !.req[k].value = value]
    ELSE s

\* Mutant: the listener is registered but the handshake is not sent.
startHandshake_ListenOnly(s, k) ==
    on(s, HandshakeResponseType, HandshakeListener(k))

\* The body run when the document is ready: register the listener and send.
startHandshake(s, k) ==
    send(on(s, HandshakeResponseType, HandshakeListener(k)),
         HandshakeType, s.handshakeToken)

handshake(s) ==
    IF s.handshakeCompleted THEN [s EXCEPT !.hs = Append(@, "fulfilled")]
    ELSE IF ~Truthy(s.handshakeToken)
    THEN [s EXCEPT !.handshakeCompleted = TRUE, !.hs = Append(@, "fulfilled")]
    ELSE LET k == Len(s.hs) + 1
             t == [s EXCEPT !.hs = Append(@, "pending")]
         IN IF s.ready THEN startHandshake(t, k)
            ELSE [t EXCEPT !.onload = k]

\* Mutant: the acknowledgement resolves every unresolved handshake() promise.
onHandshakeResponse_ResolveAll(s, k, ackToken) ==
    IF ackToken = s.handshakeToken
    THEN LET t == off([s EXCEPT !.handshakeCompleted = TRUE],
                      HandshakeResponseType, HandshakeListener(k))
         IN [t EXCEPT !.hs = [i \in 1..Len(s.hs) |-> "fulfilled"]]
    ELSE s

\* Mutant: any acknowledgement completes the handshake.
onHandshakeResponse_AnyAck(s, k, ackToken) ==
    LET t == off([s EXCEPT !.handshakeCompleted = TRUE],
                 HandshakeResponseType, HandshakeListener(k))
    IN [t EXCEPT !.hs[k] = "fulfilled"]

\* The closure onHandshakeResponse of the k-th handshake() call.
onHandshakeResponse(s, k, ackToken) ==
    IF ackToken = s.handshakeToken
    THEN LET t == off([s EXCEPT !.handshakeCompleted = TRUE],
                      HandshakeResponseType, HandshakeListener(k))
         IN [t EXCEPT !.hs[k] = "fulfilled"]
    ELSE s

\* handler(payload): the instance afterwards and the value returned.
Invoke(s, handler, payload) ==
    LET t == [s EXCEPT !.calls = Append(@, [handler |-> handler, arg |-> payload])]
    IN IF handler.kind = "hs"
       THEN [s |-> onHandshakeResponse(t, handler.n, payload), res |-> Undefined]
       ELSE IF handler.kind = "async"
       THEN [s |-> [t EXCEPT !.running =
                        Append(@, [value |-> HandlerResult(handler, payload),
                                   request |-> Undefined])],
             res |-> PromiseObject]
       ELSE [s |-> t, res |-> HandlerResult(handler, payload)]

\* Mutant: every origin is accepted.
OriginRejected_Never(s, event) == FALSE

OriginRejected(s, event) == s.origin # Wildcard /\ event.origin # s.origin

\* Mutant: a handshake with another token takes the instance back to the
\* state before the handshake.
acceptHandshake_ResetOnMismatch(s, data) ==
    IF data.payload = s.handshakeToken
    THEN [send(s, HandshakeResponseType, data.payload)
             EXCEPT !.handshakeCompleted = TRUE]
    ELSE [s EXCEPT !.handshakeCompleted = FALSE]

\* Mutant: a handshake is acknowledged whatever its payload.
acceptHandshake_NoCheck(s, data) ==
    [send(s, HandshakeResponseType, data.payload)
        EXCEPT !.handshakeCompleted = TRUE]

\* The `type === "handshake"` branch.
acceptHandshake(s, data) ==
    IF data.payload = s.handshakeToken
    THEN [send(s, HandshakeResponseType, data.payload)
             EXCEPT !.handshakeCompleted = TRUE]
    ELSE s

\* `requestId && this.pending[requestId]`
MatchesPending(s, data) ==
    Truthy(data.requestId) /\ data.requestId \in DOMAIN s.pending

resolvePending(s, data) ==
    [Resolve(s, s.pending[data.requestId], data.payload)
        EXCEPT !.pending = MapDelete(@, data.requestId)]

\* The lookup in this.handlers and the synthesized response.  request is
\* history, read only by the properties: the envelope an async handler was
\* invoked for.
dispatch(s, data) ==
    LET handler == MapGet(s.handlers, data.type)
    IN IF handler = NoHandler THEN s
       ELSE LET r == Invoke(s, handler, data.payload)
                u == IF handler.kind = "async"
                     THEN [r.s EXCEPT !.running[Len(r.s.running)].request = data]
                     ELSE r.s
            IN IF Truthy(data.requestId)
               THEN postMessage(u, Envelope(ResponseType(data.type),
                                            r.res, data.requestId))
               ELSE u

\* Mutant: the afterReceive hooks run before the origin is looked at.
onMessage_PipelineFirst(s, event) ==
    LET run == applyAfterReceive(s.plugins, event.data)
        data == run.msg
        t == [s EXCEPT !.hooks = @ \o run.trace]
        u == [t EXCEPT !.seen = Append(@, data)]
    IN IF OriginRejected(s, event) THEN t
       ELSE IF data.type = HandshakeType THEN acceptHandshake(u, data)
       ELSE IF MatchesPending(u, data) THEN resolvePending(u, data)
       ELSE dispatch(u, data)

onMessage(s, event) ==
    IF OriginRejected(s, event) THEN s
    ELSE LET run == applyAfterReceive(s.plugins, event.data)
             data == run.msg
             t == [s EXCEPT !.hooks = @ \o run.trace, !.seen = Append(@, data)]
         IN IF data.type = HandshakeType THEN acceptHandshake(t, data)
            ELSE IF MatchesPending(t, data) THEN resolvePending(t, data)
            ELSE dispatch(t, data)

\* this.onMessage.bind(this): every call makes a new function object.
Bind(s) == [s EXCEPT !.binds = @ + 1]

addEventListener(s, fn) == [s EXCEPT !.listeners = @ \cup {fn}]

removeEventListener(s, fn) == [s EXCEPT !.listeners = @ \ {fn}]

\* Mutant: destroy() leaves the pending table as it is.
destroy_KeepPending(s) ==
    LET t == [s EXCEPT !.torn = [i \in 1..Len(s.plugins) |-> s.plugins[i].name]]
        b == Bind(t)
        u == removeEventListener(b, b.binds)
    IN [u EXCEPT !.handlers = EmptyMap]

destroy(s) ==
    LET t == [s EXCEPT !.torn = [i \in 1..Len(s.plugins) |-> s.plugins[i].name]]
        b == Bind(t)
        u == removeEventListener(b, b.binds)
    IN [u EXCEPT !.handlers = EmptyMap, !.pending = EmptyPending]

use(s, plugin) == [s EXCEPT !.plugins = Append(@, plugin)]

\* new CrossFrame(target, {origin, handshakeToken})
Construct(org, token) ==
    LET s == [handlers |-> EmptyMap, origin |-> org, pending |-> EmptyPending,
              handshakeCompleted |-> FALSE, handshakeToken |-> token,
              plugins |-> <<>>, req |-> <<>>, hs |-> <<>>,
              listeners |-> {}, binds |-> 0, ready |-> FALSE, onload |-> 0,
              replaced |-> {}, running |-> <<>>,
              posted |-> <<>>, calls |-> <<>>, hooks |-> <<>>, torn |-> <<>>,
              seen |-> <<>>]
        b == Bind(s)
    IN addEventListener(b, b.binds)

\* CrossFrameChannel: the methods of the object channel(name) returns.
channelOn(s, name, type, handler) == on(s, ChannelType(name, type), handler)

channelOff(s, name, type, handler) == off(s, ChannelType(name, type), handler)

channelSend(s, name, type, payload) == send(s, ChannelType(name, type), payload)

channelRequest(s, name, type, payload, requestId) ==
    request(s, ChannelType(name, type), payload, requestId)

(***************************************************************************)
(* Steps.  Each API call, and each dispatch of a message event, is one     *)
(* step: JavaScript runs it to completion before anything else runs.       *)
(***************************************************************************)
Types == {<<"t">>}

Payloads == {<<"p1">>}

\* The names the application gives to channel().
ChannelNames == {"auth"}

\* What the browser does with the messages a step has posted from window e:
\* postMessage(message, targetOrigin) queues a message event at the target
\* window when targetOrigin is "*" or the target window's own origin.
Transport(ib, e, s) ==
    IF s.origin = Wildcard \/ s.origin = WindowOrigin(Peer(e))
    THEN [ib EXCEPT ![Peer(e)] =
             @ \o [i \in 1..Len(s.posted) |-> Event(s.posted[i], WindowOrigin(e))]]
    ELSE ib

Settle(s) ==
    [s EXCEPT !.posted = <<>>, !.calls = <<>>, !.hooks = <<>>, !.torn = <<>>,
              !.seen = <<>>]

Effects(op, e, arg, s) ==
    [op |-> op, ep |-> e, arg |-> arg, posted |-> s.posted, calls |-> s.calls,
     hooks |-> s.hooks, torn |-> s.torn, seen |-> s.seen]

\* The API call or event `op` on window e took the instance to s.
Commit(op, e, arg, s, ib) ==
    /\ cf' = [cf EXCEPT ![e] = Settle(s)]
    /\ inbox' = Transport(ib, e, s)
    /\ last' = Effects(op, e, arg, s)
    /\ UNCHANGED app

Call(op, e, arg, s) ==
    /\ op \in app.calls
    /\ ops < MaxOps
    /\ ops' = ops + 1
    /\ Commit(op, e, arg, s, inbox)

\* The arguments of a call are recorded by name; a call without arguments
\* records none.
NoArg == [none |-> TRUE]

T1 == <<"T1">>

T2 == <<"T2">>

HandshakeEnvelope(token) == Envelope(HandshakeType, token, NoRequestId)

HandshakeResponse(token) == Envelope(HandshakeResponseType, token, NoRequestId)

RequestEnvelope == Envelope(<<"t">>, <<"p1">>, <<"r1">>)

App(name, calls, foreign, tokens, strict, ready) ==
    [name |-> name, calls |-> calls, foreign |-> foreign, tokens |-> tokens,
     strict |-> strict, ready |-> ready]

\* The applications considered: the API calls each makes on either instance,
\* the envelopes a third window posts, the handshakeToken options of A and B,
\* whether the origin options name the peer's origin (else "*"), and whether
\* the documents have loaded before the instances are constructed.
Apps ==
    { App("rpc", {"on", "off", "send", "request"}, {RequestEnvelope},
          <<Undefined, T1>>, FALSE, TRUE),
      App("origin", {"on", "request", "handshake"},
          {RequestEnvelope, HandshakeEnvelope(T1), HandshakeResponse(T1)},
          <<T1, T1>>, TRUE, TRUE),
      App("handshake", {"handshake", "request"},
          {HandshakeResponse(T1), HandshakeResponse(T2)},
          <<T1, T1>>, FALSE, FALSE),
      App("mismatch", {"handshake", "request"},
          {HandshakeResponse(T1), HandshakeResponse(T2)},
          <<T1, T2>>, FALSE, FALSE),
      App("lifecycle", {"destroy", "on", "request", "use"},
          {RequestEnvelope, HandshakeEnvelope(T1)},
          <<Undefined, T1>>, FALSE, TRUE),
      App("plugins", {"use", "send", "request", "on"}, {RequestEnvelope},
          <<Undefined, Undefined>>, FALSE, TRUE),
      App("channels",
          {"on", "off", "channel.on", "channel.off", "channel.send",
           "channel.request"},
          {}, <<Undefined, T1>>, FALSE, TRUE),
      App("async", {"on.async", "request"}, {RequestEnvelope},
          <<Undefined, Undefined>>, FALSE, TRUE),
      App("filtered", {"use", "send"}, {RequestEnvelope},
          <<Undefined, Undefined>>, TRUE, TRUE) }

OriginOption(a, e) == IF a.strict THEN WindowOrigin(Peer(e)) ELSE Wildcard

TokenOption(a, e) == IF e = "A" THEN a.tokens[1] ELSE a.tokens[2]

Init ==
    /\ app \in Apps
    /\ cf = [e \in Endpoints |->
               [Construct(OriginOption(app, e), TokenOption(app, e))
                   EXCEPT !.ready = app.ready]]
    /\ inbox = [e \in Endpoints |-> <<>>]
    /\ ops = 0
    /\ last = Effects("new", "A", NoArg, Construct(Wildcard, Undefined))

\* replaced is history, read only by the properties: the types for which an
\* on() call has replaced another handler.
On(e) ==
    \E type \in Types, h \in UserHandlers :
        LET s == on(cf[e], type, h)
        IN Call("on", e, [type |-> type, handler |-> h],
                IF MapGet(cf[e].handlers, type) \notin {NoHandler, h}
                THEN [s EXCEPT !.replaced = @ \cup {type}] ELSE s)

OnAsync(e) ==
    \E type \in Types :
        Call("on.async", e, [type |-> type, handler |-> AsyncHandler(1)],
             on(cf[e], type, AsyncHandler(1)))

Off(e) ==
    \E type \in Types, h \in {NoHandler, UserHandler(1)} :
        Call("off", e, [type |-> type, handler |-> h], off(cf[e], type, h))

Send(e) ==
    \E type \in Types, payload \in Payloads :
        Call("send", e, [type |-> type, payload |-> payload],
             send(cf[e], type, payload))

Request(e) ==
    \E type \in Types, payload \in Payloads, requestId \in RandomIds :
        LET s == request(cf[e], type, payload, requestId)
        IN Call("request", e,
                [type |-> type, payload |-> payload, requestId |-> requestId],
                [s EXCEPT !.req[Len(s.req)].served =
                              MapGet(cf[Peer(e)].handlers, type)])

ChannelOn(e) ==
    \E name \in ChannelNames, type \in Types :
        Call("channel.on", e,
             [name |-> name, type |-> type, handler |-> UserHandler(1)],
             channelOn(cf[e], name, type, UserHandler(1)))

ChannelOff(e) ==
    \E name \in ChannelNames, type \in Types, h \in {NoHandler, UserHandler(2)} :
        Call("channel.off", e, [name |-> name, type |-> type, handler |-> h],
             channelOff(cf[e], name, type, h))

ChannelSend(e) ==
    \E name \in ChannelNames, type \in Types, payload \in Payloads :
        Call("channel.send", e,
             [name |-> name, type |-> type, payload |-> payload],
             channelSend(cf[e], name, type, payload))

ChannelRequest(e) ==
    \E name \in ChannelNames, type \in Types, payload \in Payloads,
       requestId \in RandomIds :
        Call("channel.request", e,
             [name |-> name, type |-> type, payload |-> payload,
              requestId |-> requestId],
             channelRequest(cf[e], name, type, payload, requestId))

Handshake(e) == Call("handshake", e, NoArg, handshake(cf[e]))

Destroy(e) == Call("destroy", e, NoArg, destroy(cf[e]))

Use(e) == \E plugin \in Plugins : Call("use", e, plugin, use(cf[e], plugin))

\* The window's load event: document.readyState becomes "complete" and the
\* window.onload callback, if handshake() has set one, runs.
Load(e) ==
    /\ ~cf[e].ready
    /\ LET s == [cf[e] EXCEPT !.ready = TRUE]
       IN Commit("load", e, NoArg,
                 IF s.onload # 0 THEN startHandshake(s, s.onload) ELSE s, inbox)
    /\ UNCHANGED ops

\* The browser dispatches the oldest queued message event of window e to the
\* listeners registered on it.
Deliver(e) ==
    /\ inbox[e] # <<>>
    /\ LET event == Head(inbox[e])
           ib == [inbox EXCEPT ![e] = Tail(@)]
       IN Commit("message", e, event,
                 IF cf[e].listeners # {} THEN onMessage(cf[e], event) ELSE cf[e], ib)
    /\ UNCHANGED ops

\* The Promise an async handler returned is fulfilled with the handler's
\* result.  The instance has attached no reaction to it.
HandlerSettles(e) ==
    /\ cf[e].running # <<>>
    /\ Commit("settled", e, Head(cf[e].running),
              [cf[e] EXCEPT !.running = Tail(@)], inbox)
    /\ UNCHANGED ops

\* A third window posts an envelope to window e.
Foreign(e) ==
    \E data \in app.foreign :
        /\ ops < MaxOps
        /\ ops' = ops + 1
        /\ inbox' = [inbox EXCEPT ![e] = Append(@, Event(data, ForeignOrigin))]
        /\ last' = Effects("foreign", e, data, Settle(cf[e]))
        /\ UNCHANGED <<cf, app>>

Next ==
    \E e \in Endpoints :
        \/ On(e)
        \/ OnAsync(e)
        \/ Off(e)
        \/ Send(e)
        \/ Request(e)
        \/ ChannelOn(e)
        \/ ChannelOff(e)
        \/ ChannelSend(e)
        \/ ChannelRequest(e)
        \/ Handshake(e)
        \/ Destroy(e)
        \/ Use(e)
        \/ Load(e)
        \/ Deliver(e)
        \/ HandlerSettles(e)
        \/ Foreign(e)

Spec == Init /\ [][Next]_vars

(***************************************************************************)
(* The handshake application under the scheduling the browser guarantees:  *)
(* a queued message event is eventually dispatched and the load event of   *)
(* A's document, while it is loading, eventually fires.  The application   *)
(* calls handshake() and request() on either instance at any time, or      *)
(* never; no third window posts anything.                                  *)
(***************************************************************************)
HandshakeInit == Init /\ app.name = "handshake"

HandshakeNext ==
    \E e \in Endpoints :
        \/ Handshake(e)
        \/ Request(e)
        \/ Load(e)
        \/ Deliver(e)

\* What a dispatch or a load event changes: it empties a queue or makes a
\* document ready.
windows == <<cf, inbox>>

Scheduling ==
    /\ \A e \in Endpoints : WF_windows(Deliver(e))
    /\ WF_windows(Load("A"))

HandshakeSpec == HandshakeInit /\ [][HandshakeNext]_vars /\ Scheduling

(***************************************************************************)
(* Properties.                                                             *)
(***************************************************************************)
ReqOf(e) == cf[e].req

Pristine(e) == cf[e].plugins = <<>> /\ cf[e].binds = 1

\* B's reply to the request behind promise q, when handler h serves it.
ReplyTo(q, h) ==
    Event(Envelope(ResponseType(q.type), HandlerResult(h, q.payload), q.requestId),
          WindowOrigin("B"))

\* C1: round trip.  Take a request of A made while B had the synchronous
\* handler h registered for its type, A and B having no plugin and not being
\* destroyed.  When A has just been delivered the reply B's h produced for it
\* (type "t:response", payload h(p), the request's requestId), the promise of
\* that request is fulfilled with h(p).
C1_RoundTrip ==
    \A k \in 1..Len(ReqOf("A")) :
        LET q == ReqOf("A")[k]
        IN (/\ last.op = "message" /\ last.ep = "A"
            /\ Pristine("A") /\ Pristine("B")
            /\ q.state # "rejected"
            /\ q.served \in UserHandlers
            /\ last.arg = ReplyTo(q, q.served))
           => (q.state = "fulfilled" /\ q.value = HandlerResult(q.served, q.payload))

\* C2: no two unresolved request promises of one instance have the same
\* requestId.
C2_UniquePendingIds ==
    \A e \in Endpoints : \A i, j \in 1..Len(ReqOf(e)) :
        (i # j /\ ReqOf(e)[i].state = "pending" /\ ReqOf(e)[j].state = "pending")
        => ReqOf(e)[i].requestId # ReqOf(e)[j].requestId

TokenConfigured(e) == cf[e].handshakeToken \notin {<<>>, <<"">>}

IsStep(op, e) == last'.op = op /\ last'.ep = e

\* C3: a request() on an instance that has a token and has not completed the
\* handshake returns a promise rejected with the handshake error, posts
\* nothing, adds no entry to the pending table and leaves the handshake state
\* as it was.
C3_RequestGated ==
    [][\A e \in Endpoints :
         (IsStep("request", e) /\ TokenConfigured(e) /\ ~cf[e].handshakeCompleted)
         => /\ Len(cf'[e].req) = Len(cf[e].req) + 1
            /\ cf'[e].req[Len(cf'[e].req)].state = "rejected"
            /\ cf'[e].req[Len(cf'[e].req)].value = HandshakeError
            /\ SubSeq(cf'[e].req, 1, Len(cf[e].req)) = cf[e].req
            /\ last'.posted = <<>>
            /\ inbox' = inbox
            /\ cf'[e].pending = cf[e].pending
            /\ cf'[e].handshakeCompleted = cf[e].handshakeCompleted]_vars

C3_Witness ==
    /\ last.op = "request"
    /\ TokenConfigured(last.ep)
    /\ ~cf[last.ep].handshakeCompleted
    /\ cf[last.ep].req[Len(cf[last.ep].req)].state = "rejected"

\* A step in which the instance of e classified an inbound envelope of the
\* given type (the envelope as the afterReceive hooks left it).
Classifies(e, type) ==
    /\ IsStep("message", e)
    /\ last'.seen # <<>>
    /\ last'.seen[1].type = type

\* C4: a pending handshake() promise of an instance becomes fulfilled only in
\* a step that receives a "handshake:response" whose payload is the
\* configured token, and then the handshake is completed and no listener is
\* registered for "handshake:response"; a "handshake:response" with another
\* payload fulfils no handshake() promise and does not change the handshake
\* state.
C4_HandshakeResolves ==
    [][\A e \in Endpoints :
         /\ \A k \in 1..Len(cf[e].hs) :
              (cf[e].hs[k] = "pending" /\ cf'[e].hs[k] = "fulfilled")
              => /\ Classifies(e, HandshakeResponseType)
                 /\ last'.seen[1].payload = cf[e].handshakeToken
                 /\ cf'[e].handshakeCompleted
                 /\ HandshakeResponseType \notin DOMAIN cf'[e].handlers
         /\ (/\ Classifies(e, HandshakeResponseType)
             /\ last'.seen[1].payload # cf[e].handshakeToken)
            => /\ cf'[e].hs = cf[e].hs
               /\ cf'[e].handshakeCompleted = cf[e].handshakeCompleted]_vars

C4_Witness ==
    /\ last.op = "message"
    /\ TokenConfigured(last.ep)
    /\ last.seen # <<>>
    /\ last.seen[1].type = HandshakeResponseType
    /\ last.seen[1].payload = cf[last.ep].handshakeToken
    /\ \E k \in 1..Len(cf[last.ep].hs) :
          /\ last.calls = <<[handler |-> HandshakeListener(k), arg |-> last.seen[1].payload]>>
          /\ cf[last.ep].hs[k] = "fulfilled"

\* C5: an instance that receives a "handshake" envelope whose payload is not
\* its token posts nothing, keeps its handshake state, and no handshake()
\* promise of either instance is settled.
C5_HandshakeMismatch ==
    [][\A e \in Endpoints :
         (/\ Classifies(e, HandshakeType)
          /\ last'.seen[1].payload # cf[e].handshakeToken)
         => /\ last'.posted = <<>>
            /\ inbox'[Peer(e)] = inbox[Peer(e)]
            /\ cf'[e].handshakeCompleted = cf[e].handshakeCompleted
            /\ \A x \in Endpoints : cf'[x].hs = cf[x].hs]_vars

C5_Witness ==
    /\ last.op = "message" /\ last.ep = "B"
    /\ last.arg.origin = WindowOrigin("A")
    /\ last.seen # <<>>
    /\ last.seen[1].type = HandshakeType
    /\ last.seen[1].payload # cf["B"].handshakeToken
    /\ ~cf["B"].handshakeCompleted
    /\ \E k \in 1..Len(cf["A"].hs) : cf["A"].hs[k] = "pending"

\* destroy() has been called on the instance of e: only destroy() binds
\* onMessage again after the constructor has.
Destroyed(e) == cf[e].binds > 1

\* C6: after destroy(), a message event delivered to the window is not
\* processed by the instance: it runs no afterReceive hook, invokes no
\* handler and posts nothing.
C6_DestroyStopsInbound ==
    \A e \in Endpoints :
        (last.op = "message" /\ last.ep = e /\ Destroyed(e))
        => (last.hooks = <<>> /\ last.calls = <<>> /\ last.posted = <<>>)

\* The promise k of e has no resolver in the pending table.
Orphaned(e, k) ==
    /\ cf[e].req[k].state = "pending"
    /\ \A r \in DOMAIN cf[e].pending : cf[e].pending[r] # k

\* C7: destroy() empties the handler registry and the pending table and
\* settles no promise; a request promise left unresolved by destroy() is
\* unchanged by every later step.
C7_DestroySettlesNothing ==
    [][\A e \in Endpoints :
         /\ IsStep("destroy", e)
            => /\ cf'[e].handlers = EmptyMap
               /\ cf'[e].pending = EmptyPending
               /\ cf'[e].req = cf[e].req
               /\ cf'[e].hs = cf[e].hs
         /\ \A k \in 1..Len(cf[e].req) :
              (Destroyed(e) /\ Orphaned(e, k)) => cf'[e].req[k] = cf[e].req[k]]_vars

C7_Witness ==
    /\ last.op = "message"
    /\ Destroyed(last.ep)
    /\ \E k \in 1..Len(cf[last.ep].req) :
          /\ cf[last.ep].req[k].state = "pending"
          /\ cf[last.ep].req[k].requestId \notin {<<>>, <<"">>}
          /\ last.arg.data.requestId = cf[last.ep].req[k].requestId

\* The composition Pn(...P2(P1(envelope))) of the hooks `dir` of the first n
\* plugins, a hook that is absent or returns nothing being the identity.
RECURSIVE Composition(_, _, _, _)
Composition(ps, dir, n, envelope) ==
    IF n = 0 THEN envelope
    ELSE LET prev == Composition(ps, dir, n - 1, envelope)
             r == CallHook(ps[n][dir], prev)
         IN IF r = <<>> THEN prev ELSE r[1]

IsBeforeSend(x) == x.dir = "beforeSend"

IsAfterReceive(x) == x.dir = "afterReceive"

\* The hook calls t are those of the plugins ps that have the hook, once each
\* and in registration order, the first given `first` and each other one the
\* output of the call before it.
Chained(t, ps, dir, first) ==
    /\ Len(t) = Cardinality({j \in 1..Len(ps) : ps[j][dir] # "absent"})
    /\ \A i \in 1..Len(t) :
          /\ t[i].plugin \in 1..Len(ps)
          /\ ps[t[i].plugin][dir] # "absent"
          /\ t[i].in = (IF i = 1 THEN first ELSE t[i - 1].out)
          /\ i > 1 => t[i - 1].plugin < t[i].plugin

\* C8: send() posts the composition of the beforeSend hooks, in registration
\* order, applied to {type, payload}; an inbound envelope is classified as
\* the composition of the afterReceive hooks, in registration order, applied
\* to the delivered envelope; the hooks are called in that order, each with
\* the output of the one before it.
C8_PluginOrder ==
    LET ps == cf[last.ep].plugins
    IN /\ last.op = "send"
          => LET envelope == Envelope(last.arg.type, last.arg.payload, NoRequestId)
             IN /\ last.posted =
                      <<Composition(ps, "beforeSend", Len(ps), envelope)>>
                /\ Chained(last.hooks, ps, "beforeSend", envelope)
       /\ (last.op = "message" /\ last.seen # <<>>)
          => /\ last.seen =
                   <<Composition(ps, "afterReceive", Len(ps), last.arg.data)>>
             /\ Chained(SelectSeq(last.hooks, IsAfterReceive), ps,
                        "afterReceive", last.arg.data)

C8_Witness ==
    /\ last.op = "send"
    /\ Len(last.hooks) = 2
    /\ cf[last.ep].plugins[1] # cf[last.ep].plugins[2]
    /\ \A i \in 1..2 : last.hooks[i].out # last.hooks[i].in

\* C9: every envelope an instance posts has been through the beforeSend
\* hooks: a step calls each plugin's beforeSend hook once for each envelope
\* it posts, and the envelope request() posts is the composition of the
\* hooks applied to {type, payload, requestId}.
C9_AllOutboundPiped ==
    LET ps == cf[last.ep].plugins
    IN /\ Len(SelectSeq(last.hooks, IsBeforeSend)) =
             Len(last.posted) * Cardinality({j \in 1..Len(ps) :
                                                ps[j].beforeSend # "absent"})
       /\ (last.op = "request" /\ last.posted # <<>>)
          => last.posted =
                <<Composition(ps, "beforeSend", Len(ps),
                              Envelope(last.arg.type, last.arg.payload,
                                       last.arg.requestId))>>

\* C10: on(type, h) makes h the one handler of the type and changes no other
\* registration, and an inbound envelope that is neither a handshake nor the
\* answer to a pending request invokes the handler registered for its type,
\* once, with its payload, and no other handler.
C10_LastWriteWins ==
    [][\A e \in Endpoints :
         /\ IsStep("on", e)
            => /\ DOMAIN cf'[e].handlers = DOMAIN cf[e].handlers \cup {last'.arg.type}
               /\ \A x \in DOMAIN cf'[e].handlers :
                     cf'[e].handlers[x] =
                        IF x = last'.arg.type THEN last'.arg.handler
                        ELSE cf[e].handlers[x]
         /\ \A h \in UserHandlers :
              (/\ IsStep("message", e)
               /\ last'.seen # <<>>
               /\ last'.seen[1].type # HandshakeType
               /\ ~(/\ last'.seen[1].requestId \notin {<<>>, <<"">>}
                    /\ last'.seen[1].requestId \in DOMAIN cf[e].pending)
               /\ last'.seen[1].type \in DOMAIN cf[e].handlers
               /\ cf[e].handlers[last'.seen[1].type] = h)
              => last'.calls = <<[handler |-> h, arg |-> last'.seen[1].payload]>>]_vars

C10_Witness ==
    /\ last.op = "message"
    /\ last.seen # <<>>
    /\ last.seen[1].type \in cf[last.ep].replaced
    /\ cf[last.ep].handlers[last.seen[1].type] = UserHandler(2)
    /\ last.calls = <<[handler |-> UserHandler(2), arg |-> last.seen[1].payload]>>

\* C11: off(type, handler) leaves the whole registry as it is when handler is
\* not the handler registered for the type, and removes the registration when
\* it is; off(type) leaves the type without a handler; in both forms the
\* registration of every other type is unchanged.
C11_OffRemoves ==
    [][\A e \in Endpoints :
         IsStep("off", e)
         => LET type == last'.arg.type
                handler == last'.arg.handler
                before == cf[e].handlers
                after == cf'[e].handlers
                registered == type \in DOMAIN before /\ before[type] = handler
            IN /\ (handler # NoHandler /\ ~registered) => after = before
               /\ (handler # NoHandler /\ registered) => type \notin DOMAIN after
               /\ handler = NoHandler => type \notin DOMAIN after
               /\ DOMAIN after \ {type} = DOMAIN before \ {type}
               /\ \A x \in DOMAIN after : after[x] = before[x]]_vars

\* off(type, handler) has just been called with a handler other than the one
\* registered for the type, while another type has a handler too.
C11_Witness ==
    /\ last.op = "off"
    /\ last.arg.handler # NoHandler
    /\ last.arg.type \in DOMAIN cf[last.ep].handlers
    /\ cf[last.ep].handlers[last.arg.type] # last.arg.handler
    /\ DOMAIN cf[last.ep].handlers # {last.arg.type}

\* What a call of a method of channel(name) gives when it is the method of
\* the instance called with the type "name:type".
Delegated(e, s) ==
    /\ cf'[e] = Settle(s)
    /\ inbox' = Transport(inbox, e, s)
    /\ last'.posted = s.posted
    /\ last'.hooks = s.hooks

\* C13: channel(n).on, off, send and request change the registry, the
\* pending table and the posted envelopes exactly as on, off, send and
\* request of the instance do with the type "n:t"; with no plugin,
\* channel(n).send(t, p) posts exactly {type: "n:t", payload: p}; and
\* channel(n).request is rejected before the handshake as request is.
C13_ChannelDelegates ==
    [][\A e \in Endpoints :
         LET type == <<last'.arg.name>> \o last'.arg.type
         IN /\ IsStep("channel.on", e)
               => Delegated(e, on(cf[e], type, last'.arg.handler))
            /\ IsStep("channel.off", e)
               => Delegated(e, off(cf[e], type, last'.arg.handler))
            /\ IsStep("channel.send", e)
               => /\ Delegated(e, send(cf[e], type, last'.arg.payload))
                  /\ cf[e].plugins = <<>>
                     => last'.posted =
                        <<Envelope(type, last'.arg.payload, NoRequestId)>>
            /\ IsStep("channel.request", e)
               => /\ Delegated(e, request(cf[e], type, last'.arg.payload,
                                          last'.arg.requestId))
                  /\ (TokenConfigured(e) /\ ~cf[e].handshakeCompleted)
                     => /\ last'.posted = <<>>
                        /\ cf'[e].req[Len(cf'[e].req)].state = "rejected"]_vars

\* channel("auth").send("t", p) has just posted {type: "auth:t", payload: p}
\* from an instance that has a handler registered through the channel.
C13_Witness ==
    /\ last.op = "channel.send"
    /\ last.posted = <<Envelope(<<"auth", "t">>, <<"p1">>, NoRequestId)>>
    /\ <<"auth", "t">> \in DOMAIN cf[last.ep].handlers

\* C12: an instance whose origin option is not "*" discards every message
\* event whose origin is not that option, whatever the envelope: it invokes
\* no handler, resolves and removes no pending request, keeps its handshake
\* state and its handshake() promises, and posts nothing.
C12_OriginFilter ==
    [][\A e \in Endpoints :
         (/\ IsStep("message", e)
          /\ cf[e].origin # Wildcard
          /\ last'.arg.origin # cf[e].origin)
         => /\ last'.calls = <<>>
            /\ last'.posted = <<>>
            /\ inbox'[Peer(e)] = inbox[Peer(e)]
            /\ cf'[e].pending = cf[e].pending
            /\ cf'[e].req = cf[e].req
            /\ cf'[e].hs = cf[e].hs
            /\ cf'[e].handshakeCompleted = cf[e].handshakeCompleted
            /\ cf'[e].handlers = cf[e].handlers]_vars

\* An envelope from another origin that carries the requestId of a pending
\* request has just been delivered to an instance with an origin option.
C12_Witness ==
    /\ last.op = "message"
    /\ cf[last.ep].origin # Wildcard
    /\ last.arg.origin # cf[last.ep].origin
    /\ last.arg.data.requestId \in DOMAIN cf[last.ep].pending
    /\ last.arg.data.requestId \notin {<<>>, <<"">>}

\* C14: the handshake state never goes back: an instance whose handshake is
\* completed has it completed after every step, whether a call of
\* handshake(), request(), send(), on(), off(), use() or destroy(), or an
\* inbound message, a handshake with another token included.
C14_HandshakeMonotone ==
    [][\A e \in Endpoints :
         cf[e].handshakeCompleted => cf'[e].handshakeCompleted]_vars

\* An instance that has completed the handshake has just received a
\* handshake whose payload is not its token.
C14_Witness ==
    /\ last.op = "message"
    /\ last.seen # <<>>
    /\ last.seen[1].type = HandshakeType
    /\ last.seen[1].payload # cf[last.ep].handshakeToken
    /\ TokenConfigured(last.ep)
    /\ cf[last.ep].handshakeCompleted

\* C15: an inbound envelope, not a handshake, whose requestId is a key of the
\* pending table is consumed by that entry: the entry is removed (and its
\* resolver invoked with the payload, no handler invoked, nothing posted), so
\* that after the step the table has no entry under the envelope's requestId.
C15_PendingConsumed ==
    \A e \in Endpoints :
        (/\ last.op = "message" /\ last.ep = e
         /\ last.seen # <<>>
         /\ last.seen[1].type # HandshakeType
         /\ last.seen[1].requestId # NoRequestId)
        => last.seen[1].requestId \notin DOMAIN cf[e].pending

\* The same for a requestId that is not the empty string, in full: the
\* promise behind the entry is fulfilled with the payload, the entry is
\* removed, no handler is invoked and nothing is posted; and a promise that
\* is fulfilled is changed by no later step.
PendingTakesPriority ==
    [][\A e \in Endpoints :
         /\ (/\ IsStep("message", e)
              /\ last'.seen # <<>>
              /\ last'.seen[1].type # HandshakeType
              /\ last'.seen[1].requestId \notin {<<>>, <<"">>}
              /\ last'.seen[1].requestId \in DOMAIN cf[e].pending)
             => LET k == cf[e].pending[last'.seen[1].requestId]
                IN /\ cf'[e].req[k].state = "fulfilled"
                   /\ cf[e].req[k].state = "pending"
                      => cf'[e].req[k].value = last'.seen[1].payload
                   /\ last'.seen[1].requestId \notin DOMAIN cf'[e].pending
                   /\ last'.calls = <<>>
                   /\ last'.posted = <<>>
         /\ \A k \in 1..Len(cf[e].req) :
               cf[e].req[k].state = "fulfilled" => cf'[e].req[k] = cf[e].req[k]]_vars

\* C16: when the handler that serves an inbound request is async, the
\* "<type>:response" envelope is posted once the handler's result is
\* available, with that result as payload and the request's requestId: the
\* step in which the handler's promise is fulfilled posts that one envelope.
C16_AsyncResponse ==
    (last.op = "settled" /\ Truthy(last.arg.request.requestId))
    => last.posted = <<Envelope(ResponseType(last.arg.request.type),
                                last.arg.value, last.arg.request.requestId)>>

\* The instance of e discards the message event ev because of its origin.
Discards(e, ev) == cf[e].origin # Wildcard /\ ev.origin # cf[e].origin

\* C17 as stated: the afterReceive hooks are the first step for every
\* delivered envelope, before the origin filter: each plugin that has the
\* hook runs it once, in registration order, on every delivered envelope,
\* the ones the origin filter discards included.
C17_PipelineFirst ==
    last.op = "message"
    => Chained(SelectSeq(last.hooks, IsAfterReceive), cf[last.ep].plugins,
               "afterReceive", last.arg.data)

\* C17 amended: the origin filter comes first.  For an envelope it discards
\* no afterReceive hook runs and nothing is classified; for every other
\* delivered envelope each plugin that has the hook runs it once, in
\* registration order, before classification, and what is classified, and
\* the payload a handler is invoked with, is the transformed envelope.
C17_FilterThenPipeline ==
    last.op = "message"
    => LET ps == cf[last.ep].plugins
           transformed == Composition(ps, "afterReceive", Len(ps), last.arg.data)
       IN IF Discards(last.ep, last.arg)
          THEN last.hooks = <<>> /\ last.seen = <<>> /\ last.calls = <<>>
          ELSE /\ Chained(SelectSeq(last.hooks, IsAfterReceive), ps,
                          "afterReceive", last.arg.data)
               /\ last.seen = <<transformed>>
               /\ \A i \in 1..Len(last.calls) :
                     last.calls[i].arg = transformed.payload

\* An envelope from another origin has just been discarded by an instance
\* with a plugin whose afterReceive hook would have transformed it.
C17_Witness ==
    /\ last.op = "message"
    /\ Discards(last.ep, last.arg)
    /\ \E i \in 1..Len(cf[last.ep].plugins) :
          CallHook(cf[last.ep].plugins[i].afterReceive, last.arg.data) # <<>>
    /\ last.hooks = <<>>

\* The latest handshake() call of A, the one whose listener no other call has
\* replaced, has its promise unresolved.
AwaitsHandshake ==
    cf["A"].hs # <<>> /\ cf["A"].hs[Len(cf["A"].hs)] = "pending"

\* The promise of the latest handshake() call of A is fulfilled and both
\* instances have completed the handshake, so that request() is rejected on
\* neither.
HandshakeDone ==
    /\ cf["A"].hs # <<>> /\ cf["A"].hs[Len(cf["A"].hs)] = "fulfilled"
    /\ \A e \in Endpoints : cf[e].handshakeCompleted

\* C18: A and B have the same token, no plugin, and are not destroyed, and
\* every queued message event is eventually dispatched.  A handshake() call
\* of A whose listener no later call replaces leads to a state in which its
\* promise is fulfilled and A and B have both completed the handshake (B by
\* receiving A's handshake, which it acknowledges); that stays so from then
\* on, and no request() of A or B made from then on is rejected.
C18_HandshakeLiveness ==
    /\ AwaitsHandshake ~> HandshakeDone
    /\ [][HandshakeDone
            => /\ HandshakeDone'
               /\ \A e \in Endpoints :
                     IsStep("request", e)
                     => cf'[e].req[Len(cf'[e].req)].state # "rejected"]_vars

\* B's acknowledgement has just fulfilled the promise of a handshake() call
\* of A, both instances having completed the handshake.
C18_Witness ==
    /\ last.op = "message" /\ last.ep = "A"
    /\ last.arg = Event(HandshakeResponse(T1), WindowOrigin("B"))
    /\ \E k \in 1..Len(cf["A"].hs) :
          /\ last.calls = <<[handler |-> HandshakeListener(k), arg |-> T1]>>
          /\ cf["A"].hs[k] = "fulfilled"
    /\ \A e \in Endpoints : cf[e].handshakeCompleted

\* C19: the handshake gates request() only.  On an instance that has a token
\* and has not completed the handshake, send() posts its envelope to the
\* peer, and an inbound envelope whose type has a handler invokes the
\* handler with the payload and, when it carries a requestId (a string that
\* is not empty), posts the "<type>:response" with the handler's result and
\* that requestId.
C19_GateOnlyRequest ==
    [][\A e \in Endpoints :
         (TokenConfigured(e) /\ ~cf[e].handshakeCompleted)
         => /\ IsStep("send", e)
               => /\ Len(last'.posted) = 1
                  /\ last'.posted[1].type = last'.arg.type
                  /\ inbox'[Peer(e)] =
                        Append(inbox[Peer(e)],
                               Event(last'.posted[1], WindowOrigin(e)))
            /\ \A h \in UserHandlers :
                 (/\ IsStep("message", e)
                  /\ last'.seen # <<>>
                  /\ last'.seen[1].type # HandshakeType
                  /\ last'.seen[1].requestId \notin DOMAIN cf[e].pending
                  /\ last'.seen[1].type \in DOMAIN cf[e].handlers
                  /\ cf[e].handlers[last'.seen[1].type] = h)
                 => LET data == last'.seen[1]
                        response == Envelope(Append(data.type, "response"),
                                             HandlerResult(h, data.payload),
                                             data.requestId)
                    IN /\ last'.calls = <<[handler |-> h, arg |-> data.payload]>>
                       /\ data.requestId \notin {<<>>, <<"">>}
                          => /\ last'.posted = <<response>>
                             /\ inbox'[Peer(e)] =
                                   Append(inbox[Peer(e)],
                                          Event(response, WindowOrigin(e)))]_vars

\* An instance that has a token and has not completed the handshake has just
\* served an inbound request: it invoked the handler and posted the response.
C19_Witness ==
    /\ last.op = "message"
    /\ TokenConfigured(last.ep)
    /\ ~cf[last.ep].handshakeCompleted
    /\ last.calls # <<>>
    /\ last.calls[1].handler \in UserHandlers
    /\ Len(last.posted) = 1
    /\ last.posted[1].requestId = last.arg.data.requestId

\* The handshake() call just made on e, in a document that is ready, was
\* made while the promise of an earlier call was unresolved.
Reentrant(e) ==
    /\ last.op = "handshake" /\ last.ep = e
    /\ TokenConfigured(e)
    /\ cf[e].ready
    /\ \E j \in 1..(Len(cf[e].hs) - 1) : cf[e].hs[j] = "pending"

\* C20 as stated, for a document that is ready: a handshake() call made while
\* the promise of an earlier call is unresolved sends a "handshake" envelope
\* of its own and its listener takes the place of the earlier one in the
\* registry.
C20_SecondExchange ==
    \A e \in Endpoints :
        Reentrant(e)
        => /\ last.posted = <<HandshakeEnvelope(cf[e].handshakeToken)>>
           /\ MapGet(cf[e].handlers, HandshakeResponseType) =
                 HandshakeListener(Len(cf[e].hs))

\* In the instance s the j-th handshake() call is unresolved and has lost its
\* turn: its listener is not the registered one, and is not the one the load
\* event will register.
Superseded(s, j) ==
    /\ s.hs[j] = "pending"
    /\ MapGet(s.handlers, HandshakeResponseType) # HandshakeListener(j)
    /\ s.ready \/ s.onload # j

\* C20 amended: take a handshake() call made on an instance that has a token
\* and has not completed the handshake, while the promise of an earlier call
\* is unresolved.  If the document is ready it posts a second "handshake"
\* envelope and its listener replaces the registered one; if not, its
\* deferred start replaces the earlier call's, and the load event posts one
\* "handshake" envelope and registers the listener of the latest call only.
\* Either way the earlier call is superseded.  A promise is fulfilled only
\* by a message delivered while its own listener is the registered one, and
\* a superseded call stays superseded and unresolved in every later step.
C20_Reentrant ==
    [][\A e \in Endpoints :
         LET k == Len(cf'[e].hs)
             hello == HandshakeEnvelope(cf[e].handshakeToken)
         IN /\ (/\ IsStep("handshake", e)
                 /\ TokenConfigured(e) /\ ~cf[e].handshakeCompleted
                 /\ \E j \in 1..Len(cf[e].hs) : cf[e].hs[j] = "pending")
                => /\ k = Len(cf[e].hs) + 1
                   /\ cf'[e].hs[k] = "pending"
                   /\ IF cf[e].ready
                      THEN /\ last'.posted = <<hello>>
                           /\ MapGet(cf'[e].handlers, HandshakeResponseType) =
                                 HandshakeListener(k)
                      ELSE /\ last'.posted = <<>>
                           /\ cf'[e].handlers = cf[e].handlers
                           /\ cf'[e].onload = k
                   /\ \A j \in 1..Len(cf[e].hs) :
                         cf[e].hs[j] = "pending" => Superseded(cf'[e], j)
            /\ (IsStep("load", e) /\ cf[e].onload # 0)
                => /\ last'.posted = <<hello>>
                   /\ MapGet(cf'[e].handlers, HandshakeResponseType) =
                         HandshakeListener(cf[e].onload)
            /\ \A j \in 1..Len(cf[e].hs) :
                  /\ (cf[e].hs[j] = "pending" /\ cf'[e].hs[j] # "pending")
                     => /\ IsStep("message", e)
                        /\ MapGet(cf[e].handlers, HandshakeResponseType) =
                              HandshakeListener(j)
                  /\ Superseded(cf[e], j) => Superseded(cf'[e], j)]_vars

\* An acknowledgement has just fulfilled the promise of a later handshake()
\* call while the promise of an earlier call stays unresolved.
C20_Witness ==
    /\ last.op = "message"
    /\ last.seen # <<>>
    /\ last.seen[1].type = HandshakeResponseType
    /\ \E j, k \in 1..Len(cf[last.ep].hs) :
          /\ j < k
          /\ Superseded(cf[last.ep], j)
          /\ cf[last.ep].hs[k] = "fulfilled"
          /\ last.calls = <<[handler |-> HandshakeListener(k),
                             arg |-> cf[last.ep].handshakeToken]>>

====
